---- MODULE Spec2Model ----
(***************************************************************************)
(* Banks_Project.py: the ETL pipeline extract -> transform -> load_to_csv  *)
(* -> load_to_db -> run_query x3 -> close, and the pure functions it is    *)
(* built from (name extraction, market-cap parsing, currency conversion).  *)
(*                                                                         *)
(* Text is a sequence of one-character strings.  A float is the record     *)
(* [nan, v]: v is the value in units of 1/Scale.  A converted amount is    *)
(* [nan, v] with v in hundredths.                                          *)
(***************************************************************************)
EXTENDS Integers, Sequences, FiniteSets, TLC

\* ------------------------------------------------------------------ bounds
\* longest text of a market-cap cell in the parsing specification
MaxLen == 4
\* most rows in the first <tbody> of a document
MaxRows == 2
\* most calls of transform on one dataframe in the conversion specification
MaxCalls == 2

\* ------------------------------------------------------------ text helpers
Digits == {"1", "5"}
Spaces == {" ", "\n"}
\* the characters market-cap texts are built from: digits, point, sign,
\* blanks, a footnote glyph, and the letters of "nan"
Alphabet == Digits \cup Spaces \cup {".", "-", "*", "n", "a"}

RECURSIVE Pow10(_)
Pow10(k) == IF k = 0 THEN 1 ELSE 10 * Pow10(k - 1)

\* one unit of a float is 1/Scale: a text of at most MaxLen characters has,
\* once its last character is dropped, at most MaxLen - 2 decimals
Scale == Pow10(MaxLen - 2)

DigitVal(c) == IF c = "1" THEN 1 ELSE 5

RECURSIVE LStrip(_)
LStrip(s) == IF s # << >> /\ Head(s) \in Spaces THEN LStrip(Tail(s)) ELSE s

RECURSIVE RStrip(_)
RStrip(s) ==
  IF s # << >> /\ s[Len(s)] \in Spaces THEN RStrip(SubSeq(s, 1, Len(s) - 1)) ELSE s

\* str.strip()
Strip(s) == RStrip(LStrip(s))

\* variant: every trailing character that is no digit is removed
DropAllTrailingNonDigits(s) ==
  LET RECURSIVE cut(_)
      cut(t) == IF t # << >> /\ t[Len(t)] \notin Digits
                THEN cut(SubSeq(t, 1, Len(t) - 1)) ELSE t
  IN cut(s)
\* s[:-1]: drops exactly the last character (the empty text stays empty)
DropLast(s) == SubSeq(s, 1, Len(s) - 1)

\* the value of a run of digits
RECURSIVE IntOf(_)
IntOf(s) == IF s = << >> THEN 0 ELSE 10 * IntOf(SubSeq(s, 1, Len(s) - 1)) + DigitVal(s[Len(s)])

IndexOfPoint(s) ==
  IF \E k \in 1..Len(s) : s[k] = "." THEN CHOOSE k \in 1..Len(s) : s[k] = "." ELSE 0

CountPoints(s) == Cardinality({k \in 1..Len(s) : s[k] = "."})

\* float(str): blanks around the literal are ignored, then an optional sign,
\* then "nan" or digits with at most one point and at least one digit.
\* ok = FALSE is ValueError.
ValueError == [ok |-> FALSE, nan |-> FALSE, v |-> 0]
float(s) ==
  LET t    == Strip(s)
      neg  == t # << >> /\ Head(t) = "-"
      body == IF neg THEN Tail(t) ELSE t
      p    == IndexOfPoint(body)
      ip   == IF p = 0 THEN body ELSE SubSeq(body, 1, p - 1)
      fp   == IF p = 0 THEN << >> ELSE SubSeq(body, p + 1, Len(body))
      mag  == IntOf(ip) * Scale + IntOf(fp) * (Scale \div Pow10(Len(fp)))
  IN IF body = <<"n", "a", "n">> THEN [ok |-> TRUE, nan |-> TRUE, v |-> 0]
     ELSE IF /\ \A k \in 1..Len(body) : body[k] \in Digits \cup {"."}
             /\ CountPoints(body) <= 1
             /\ \E k \in 1..Len(body) : body[k] \in Digits
          THEN [ok |-> TRUE, nan |-> FALSE, v |-> IF neg THEN 0 - mag ELSE mag]
          ELSE ValueError

\* ------------------------------------------------------------ the document
\* A <td> as extract reads it: the <a> elements inside it in document order
\* (title = << >> with hasTitle FALSE: no title attribute), its text
\* fragments in document order, and its direct children (.contents): a
\* child is a text node or a nested element.
Anchor(hasTitle, title) == [hasTitle |-> hasTitle, title |-> title]
TextNode(t) == [tag |-> FALSE, text |-> t]
TagNode(t) == [tag |-> TRUE, text |-> t]
Cell(anchors, strings, contents) ==
  [anchors |-> anchors, strings |-> strings, contents |-> contents]
EmptyCell == Cell(<< >>, << >>, << >>)

\* second data cells: the shapes name extraction distinguishes
NameCells ==
  { Cell(<< >>, << <<" ", "a", "b", "\n">> >>, << >>),
    Cell(<< >>, << <<"a", " ">>, <<" ", "b">> >>, << >>),
    Cell(<< Anchor(TRUE, <<"x">>) >>, << <<"a">> >>, << >>),
    Cell(<< Anchor(FALSE, << >>), Anchor(TRUE, <<"G", " ", "B">>) >>,
         << <<"g">>, <<"b">> >>, << >>),
    Cell(<< Anchor(TRUE, <<"x">>), Anchor(FALSE, << >>) >>,
         << <<"a">>, <<" ", "b">> >>, << >>) }

PlainNameCell == Cell(<< >>, << <<"a">> >>, << >>)

\* third data cells: no child, a text first child, a nested element first
MetricCell(contents) == Cell(<< >>, << >>, contents)
MetricCells ==
  { MetricCell(<< >>),
    MetricCell(<< TextNode(<<"1", ".", "5", "\n">>) >>),
    MetricCell(<< TextNode(<<"5", "*", "\n">>) >>),
    MetricCell(<< TextNode(<<"-", "5", "\n">>) >>),
    MetricCell(<< TextNode(<<"n", "a", "n", "\n">>) >>),
    MetricCell(<< TextNode(<<"1", "5">>), TagNode(<<"*">>) >>),
    MetricCell(<< TagNode(<<"1", "5">>), TextNode(<<"\n">>) >>) }

GoodMetricCell == MetricCell(<< TextNode(<<"1", "5", "\n">>) >>)

\* A <tr>: its <td> cells in order (a header row has none).
HeaderRow == << >>
ShortRow == << EmptyCell, PlainNameCell >>
DataRows ==
  { << EmptyCell, n, GoodMetricCell >> : n \in NameCells } \cup
  { << EmptyCell, PlainNameCell, m >> : m \in MetricCells } \cup
  { << EmptyCell, PlainNameCell, GoodMetricCell, EmptyCell >> }
Rows == {HeaderRow, ShortRow} \cup DataRows

RECURSIVE SeqsUpTo(_, _)
SeqsUpTo(S, n) ==
  IF n = 0 THEN { << >> }
  ELSE LET shorter == SeqsUpTo(S, n - 1)
       IN shorter \cup { Append(q, x) : q \in {r \in shorter : Len(r) = n - 1}, x \in S }

\* A page: whether it has a <tbody>, and the <tr> rows of the first one.
Documents ==
  { [tbody |-> FALSE, rows |-> << >>] } \cup
  { [tbody |-> TRUE, rows |-> r] : r \in SeqsUpTo(Rows, MaxRows) }

\* ----------------------------------------------------------------- extract
\* A dataframe: its column names in order, and its rows in insertion order
\* (a row is a function from the column names it has to values).
DataFrame(columns, data) == [columns |-> columns, data |-> data]
table_attribs == <<"Name", "MC_USD_Billion">>
Zero == [nan |-> FALSE, v |-> 0]

\* row.find('td') is not None, and then len(col) >= 3
Eligible(row) == Len(row) > 0 /\ ~(Len(row) < 3)

RECURSIVE Join(_)
Join(ss) == IF ss = << >> THEN << >> ELSE Head(ss) \o Join(Tail(ss))

\* Tag.get_text(strip=True): every text fragment is stripped on its own,
\* the fragments left empty are dropped, the rest are concatenated
RECURSIVE StripEach(_)
StripEach(ss) ==
  IF ss = << >> THEN << >>
  ELSE IF Strip(Head(ss)) = << >> THEN StripEach(Tail(ss))
       ELSE <<Strip(Head(ss))>> \o StripEach(Tail(ss))
get_text(cell) == Join(StripEach(cell.strings))

\* col[1].find_all('a')[1]['title'], IndexError and KeyError falling back
\* to the cell's text
bank_name(cell) ==
  IF Len(cell.anchors) >= 2 /\ cell.anchors[2].hasTitle
  THEN cell.anchors[2].title
  ELSE get_text(cell)

\* The try block of the market cap.  col[2].contents[0] raises IndexError on
\* a cell without children and float raises ValueError: both are caught and
\* give 0.0.  A nested element as first child is subscripted with a slice,
\* which Tag.__getitem__ hands to its attribute dict: TypeError (KeyError
\* from Python 3.12 on), caught by nobody.
market_cap(cell) ==
  IF cell.contents = << >> THEN [exc |-> "none", val |-> Zero]
  ELSE IF cell.contents[1].tag THEN [exc |-> "TypeError", val |-> Zero]
  ELSE LET f == float(DropLast(cell.contents[1].text))
       IN IF f.ok THEN [exc |-> "none", val |-> [nan |-> f.nan, v |-> f.v]]
          ELSE [exc |-> "none", val |-> Zero]

data_dict(row) ==
  [Name |-> bank_name(row[2]), MC_USD_Billion |-> market_cap(row[3]).val]

\* the loop over the rows: the rows appended so far, and the exception
\* that ended the loop, if any
RECURSIVE extract_rows(_, _)
extract_rows(rows, data) ==
  IF rows = << >> THEN [exc |-> "none", data |-> data]
  ELSE IF ~Eligible(Head(rows)) THEN extract_rows(Tail(rows), data)
  ELSE IF market_cap(Head(rows)[3]).exc # "none"
       THEN [exc |-> market_cap(Head(rows)[3]).exc, data |-> data]
       ELSE extract_rows(Tail(rows), Append(data, data_dict(Head(rows))))

\* extract on a fetched page: the exception it raises, or the dataframe
extract(d) ==
  IF ~d.tbody THEN [exc |-> "NoTbody", df |-> DataFrame(table_attribs, << >>)]
  ELSE IF d.rows = << >> THEN [exc |-> "NoRows", df |-> DataFrame(table_attribs, << >>)]
  ELSE LET r == extract_rows(d.rows, << >>)
       IN [exc |-> r.exc, df |-> DataFrame(table_attribs, r.data)]

\* --------------------------------------------------------------- transform
\* exchange-rate tables (rates in hundredths), as read from the CSV
RateTables ==
  { [GBP |-> 80, EUR |-> 93, INR |-> 8295],
    [EUR |-> 93, INR |-> 8295],
    [GBP |-> 80, INR |-> 8295],
    [GBP |-> 80, EUR |-> 93] }

Currencies == <<"GBP", "EUR", "INR">>
ColumnOf(code) ==
  CASE code = "GBP" -> "MC_GBP_Billion"
    [] code = "EUR" -> "MC_EUR_Billion"
    [] code = "INR" -> "MC_INR_Billion"

\* n/d rounded to the nearest integer, ties to even
RoundHalfEven(n, d) ==
  LET a == IF n < 0 THEN 0 - n ELSE n
      q == a \div d
      r == a % d
      m == IF 2 * r < d THEN q
           ELSE IF 2 * r > d THEN q + 1
           ELSE IF q % 2 = 0 THEN q ELSE q + 1
  IN IF n < 0 THEN 0 - m ELSE m

\* np.round(x * rate, 2), in hundredths
Round2(x, rate) ==
  IF x.nan THEN [nan |-> TRUE, v |-> 0]
  ELSE [nan |-> FALSE, v |-> RoundHalfEven(x.v * rate, Scale)]

\* variant: the GBP rate in the comprehension of every column
ColumnCopyPaste(df, rt, code) ==
  [i \in 1..Len(df.data) |-> Round2(df.data[i].MC_USD_Billion, rt["GBP"])]
\* [np.round(x * exchange_rate[code], 2) for x in df['MC_USD_Billion']]
Column(df, rt, code) ==
  [i \in 1..Len(df.data) |-> Round2(df.data[i].MC_USD_Billion, rt[code])]

\* df[name] = values: a new column is appended, an existing one replaced
SetColumn(df, name, values) ==
  DataFrame(
    IF \E k \in 1..Len(df.columns) : df.columns[k] = name
    THEN df.columns ELSE Append(df.columns, name),
    [i \in 1..Len(df.data) |->
       [c \in DOMAIN df.data[i] \cup {name} |->
          IF c = name THEN values[i] ELSE df.data[i][c]]])

\* the three assignments in order.  exchange_rate[code] is looked up inside
\* the comprehension, once per row: with no row it is never looked up and
\* a missing code raises nothing.  A KeyError leaves the columns assigned
\* before it in the dataframe.
RECURSIVE transform_from(_, _, _)
transform_from(df, rt, codes) ==
  IF codes = << >> THEN [exc |-> "none", df |-> df]
  ELSE IF df.data # << >> /\ Head(codes) \notin DOMAIN rt
       THEN [exc |-> "KeyError", df |-> df]
       ELSE transform_from(
              SetColumn(df, ColumnOf(Head(codes)), Column(df, rt, Head(codes))),
              rt, Tail(codes))

transform(df, rt) == transform_from(df, rt, Currencies)

\* ---------------------------------------------------------------- the run
VARIABLES
  pc,        \* the statement of __main__ about to run, "done" or "aborted"
  doc,       \* the page extract fetched
  rates,     \* the exchange-rate table transform read
  df,        \* the dataframe handed from stage to stage
  exc,       \* the uncaught exception that ended the run, "none" if none
  failed,    \* the stage that raised it, "none" if none
  csvFile,   \* ./Largest_banks_data.csv: << >> if not written, else <<df>>
  dbTable,   \* table Largest_banks: << >> if not written, else <<df>>
  conn,      \* the sqlite3 connection: "none", "open" or "closed"
  connects,  \* how many times sqlite3.connect has returned a connection
  connUses,  \* what the connection was used for, in order
  started,   \* the stages entered, in order
  log,       \* code_log.txt, one message per line
  calls,     \* calls of transform that returned (conversion specification)
  firstOut   \* what the first call of transform returned, << >> before it

vars == <<pc, doc, rates, df, exc, failed, csvFile, dbTable, conn, connects,
          connUses, started, log, calls, firstOut>>

NoDoc == [tbody |-> FALSE, rows |-> << >>]
NoRates == [GBP |-> 0]
NoFrame == DataFrame(<< >>, << >>)

\* variant: the flat file written before the transformation
SequelCsvFirst(stage) ==
  CASE stage = "start"       -> "extract"
    [] stage = "extract"     -> "load_to_csv"
    [] stage = "load_to_csv" -> "transform"
    [] stage = "transform"   -> "connect"
    [] stage = "connect"     -> "load_to_db"
    [] stage = "load_to_db"  -> "query_1"
    [] stage = "query_1"     -> "query_2"
    [] stage = "query_2"     -> "query_3"
    [] stage = "query_3"     -> "close"
    [] stage = "close"       -> "done"
\* the statements of __main__ in program order
Sequel(stage) ==
  CASE stage = "start"       -> "extract"
    [] stage = "extract"     -> "transform"
    [] stage = "transform"   -> "load_to_csv"
    [] stage = "load_to_csv" -> "connect"
    [] stage = "connect"     -> "load_to_db"
    [] stage = "load_to_db"  -> "query_1"
    [] stage = "query_1"     -> "query_2"
    [] stage = "query_2"     -> "query_3"
    [] stage = "query_3"     -> "close"
    [] stage = "close"       -> "done"

\* variant: the exception is swallowed and the next statement runs
UncaughtResumes(stage) == Sequel(stage)
\* where control goes when a stage raises: nothing in __main__ catches, the
\* interpreter ends the run
Uncaught(stage) == "aborted"

query_1 == "SELECT * FROM Largest_banks"
query_2 == "SELECT AVG(MC_GBP_Billion) FROM Largest_banks"
query_3 == "SELECT Name FROM Largest_banks LIMIT 5"

Init ==
  /\ pc = "start"
  /\ doc = NoDoc
  /\ rates = NoRates
  /\ df = NoFrame
  /\ exc = "none"
  /\ failed = "none"
  /\ csvFile = << >>
  /\ dbTable = << >>
  /\ conn = "none"
  /\ connects = 0
  /\ connUses = << >>
  /\ started = << >>
  /\ log = << >>
  /\ calls = 0
  /\ firstOut = << >>

\* a stage ends in an uncaught exception
Raises(stage, kind) ==
  /\ exc' = kind
  /\ failed' = stage
  /\ pc' = Uncaught(stage)

Returns(stage) ==
  /\ pc' = Sequel(stage)
  /\ UNCHANGED <<exc, failed>>

\* log_progress("Preliminaries complete. Initiating ETL process.")
Start ==
  /\ pc = "start"
  /\ log' = Append(log, "Preliminaries complete. Initiating ETL process.")
  /\ Returns("start")
  /\ UNCHANGED <<doc, rates, df, csvFile, dbTable, conn, connects, connUses,
                 started, calls, firstOut>>

\* df_extracted = extract(url, table_attributes): requests.get fails
ExtractNoPage ==
  /\ pc = "extract"
  /\ started' = Append(started, "extract")
  /\ log' = Append(log, "Starting data extraction.")
  /\ Raises("extract", "RequestException")
  /\ UNCHANGED <<doc, rates, df, csvFile, dbTable, conn, connects, connUses,
                 calls, firstOut>>

\* df_extracted = extract(url, table_attributes) on a page fetched from D
ExtractFrom(D) ==
  /\ pc = "extract"
  /\ started' = Append(started, "extract")
  /\ \E d \in D :
       /\ doc' = d
       /\ IF extract(d).exc = "none"
          THEN /\ df' = extract(d).df
               /\ log' = log \o <<"Starting data extraction.",
                    "Data extraction complete. Initiating Transformation process.">>
               /\ Returns("extract")
          ELSE /\ df' = df
               /\ log' = Append(log, "Starting data extraction.")
               /\ Raises("extract", extract(d).exc)
  /\ UNCHANGED <<rates, csvFile, dbTable, conn, connects, connUses, calls, firstOut>>

Extract == ExtractFrom(Documents)

\* df_transformed = transform(df_extracted, csv_path): read_csv fails
TransformNoCsv ==
  /\ pc = "transform"
  /\ started' = Append(started, "transform")
  /\ log' = Append(log, "Starting data transformation.")
  /\ Raises("transform", "IOError")
  /\ UNCHANGED <<doc, rates, df, csvFile, dbTable, conn, connects, connUses,
                 calls, firstOut>>

\* df_transformed = transform(df_extracted, csv_path) on the table read;
\* the dataframe is changed in place, also by the assignments before a KeyError
Transform ==
  /\ pc = "transform"
  /\ started' = Append(started, "transform")
  /\ \E rt \in RateTables :
       /\ rates' = rt
       /\ df' = transform(df, rt).df
       /\ IF transform(df, rt).exc = "none"
          THEN /\ log' = log \o <<"Starting data transformation.",
                    "Data transformation complete. Initiating Loading process.">>
               /\ Returns("transform")
          ELSE /\ log' = Append(log, "Starting data transformation.")
               /\ Raises("transform", transform(df, rt).exc)
  /\ UNCHANGED <<doc, csvFile, dbTable, conn, connects, connUses, calls, firstOut>>

\* load_to_csv(df_transformed, output_csv_path)
LoadToCsv ==
  /\ pc = "load_to_csv"
  /\ started' = Append(started, "load_to_csv")
  /\ \E ok \in BOOLEAN :
       IF ok
       THEN /\ csvFile' = <<df>>
            /\ log' = log \o <<"Saving data to CSV.", "Data saved to CSV file.">>
            /\ Returns("load_to_csv")
       ELSE /\ csvFile' = csvFile
            /\ log' = Append(log, "Saving data to CSV.")
            /\ Raises("load_to_csv", "IOError")
  /\ UNCHANGED <<doc, rates, df, dbTable, conn, connects, connUses, calls, firstOut>>

\* connection = sqlite3.connect('Banks.db')
Connect ==
  /\ pc = "connect"
  /\ \E ok \in BOOLEAN :
       IF ok
       THEN /\ conn' = "open"
            /\ connects' = connects + 1
            /\ Returns("connect")
       ELSE /\ UNCHANGED <<conn, connects>>
            /\ Raises("connect", "sqlite3.Error")
  /\ UNCHANGED <<doc, rates, df, csvFile, dbTable, connUses, started, log,
                 calls, firstOut>>

\* load_to_db(df_transformed, connection, "Largest_banks"): to_sql with
\* if_exists='replace'
LoadToDb ==
  /\ pc = "load_to_db"
  /\ started' = Append(started, "load_to_db")
  /\ connUses' = Append(connUses, "replace")
  /\ \E ok \in BOOLEAN :
       IF ok
       THEN /\ dbTable' = <<df>>
            /\ log' = log \o <<"Saving data to Database.",
                 "Data loaded to Database as a table, Executing queries.">>
            /\ Returns("load_to_db")
       ELSE /\ dbTable' = dbTable
            /\ log' = Append(log, "Saving data to Database.")
            /\ Raises("load_to_db", "sqlite3.Error")
  /\ UNCHANGED <<doc, rates, df, csvFile, conn, connects, calls, firstOut>>

\* run_query(query, connection): execute, fetchall, print
RunQuery(stage, query) ==
  /\ pc = stage
  /\ started' = Append(started, stage)
  /\ connUses' = Append(connUses, query)
  /\ \E ok \in BOOLEAN :
       IF ok
       THEN /\ log' = log \o <<"Executing Query: " \o query, "Query execution completed">>
            /\ Returns(stage)
       ELSE /\ log' = Append(log, "Executing Query: " \o query)
            /\ Raises(stage, "sqlite3.Error")
  /\ UNCHANGED <<doc, rates, df, csvFile, dbTable, conn, connects, calls, firstOut>>

Query1 == RunQuery("query_1", query_1)
Query2 == RunQuery("query_2", query_2)
Query3 == RunQuery("query_3", query_3)

\* connection.close() and the last log line
Close ==
  /\ pc = "close"
  /\ started' = Append(started, "close")
  /\ conn' = "closed"
  /\ log' = Append(log, "Server Connection closed. Process Complete.")
  /\ Returns("close")
  /\ UNCHANGED <<doc, rates, df, csvFile, dbTable, connects, connUses, calls, firstOut>>

Next ==
  \/ Start
  \/ ExtractNoPage
  \/ Extract
  \/ TransformNoCsv
  \/ Transform
  \/ LoadToCsv
  \/ Connect
  \/ LoadToDb
  \/ Query1
  \/ Query2
  \/ Query3
  \/ Close

Spec == Init /\ [][Next]_vars

\* ------------------------------------------- the market cap of any text
\* every text of 1..MaxLen characters as the only child of the third cell
Texts == SeqsUpTo(Alphabet, MaxLen) \ { << >> }
TextRow(t) == << EmptyCell, PlainNameCell, MetricCell(<< TextNode(t) >>) >>
TextDocuments == { [tbody |-> TRUE, rows |-> << TextRow(t) >>] : t \in Texts }

ExtractText == ExtractFrom(TextDocuments)

NextText ==
  \/ Start
  \/ ExtractText

SpecText == Init /\ [][NextText]_vars

\* --------------------------------------------- transform called repeatedly
\* the market caps extract produces from the third cells above
MetricValues ==
  { market_cap(c).val : c \in MetricCells \cup {GoodMetricCell} }
Frames ==
  { DataFrame(table_attribs, d) :
      d \in SeqsUpTo({ [Name |-> <<"a">>, MC_USD_Billion |-> x] : x \in MetricValues },
                     MaxRows) }

InitConvert ==
  /\ pc = "transform"
  /\ doc = NoDoc
  /\ rates \in RateTables
  /\ df \in Frames
  /\ exc = "none"
  /\ failed = "none"
  /\ csvFile = << >>
  /\ dbTable = << >>
  /\ conn = "none"
  /\ connects = 0
  /\ connUses = << >>
  /\ started = << >>
  /\ log = << >>
  /\ calls = 0
  /\ firstOut = << >>

\* transform(df, csv_path) once more on the same dataframe and rate table
TransformAgain ==
  /\ pc = "transform"
  /\ calls < MaxCalls
  /\ started' = Append(started, "transform")
  /\ df' = transform(df, rates).df
  /\ IF transform(df, rates).exc = "none"
     THEN /\ calls' = calls + 1
          /\ firstOut' = IF calls = 0 THEN << transform(df, rates).df >> ELSE firstOut
          /\ log' = log \o <<"Starting data transformation.",
               "Data transformation complete. Initiating Loading process.">>
          /\ UNCHANGED <<pc, exc, failed>>
     ELSE /\ UNCHANGED <<calls, firstOut>>
          /\ log' = Append(log, "Starting data transformation.")
          /\ Raises("transform", transform(df, rates).exc)
  /\ UNCHANGED <<doc, rates, csvFile, dbTable, conn, connects, connUses>>

NextConvert == TransformAgain

SpecConvert == InitConvert /\ [][NextConvert]_vars

\* ================================================================== claims
Last(q) == q[Len(q)]
IsPrefix(p, q) == Len(p) <= Len(q) /\ \A k \in 1..Len(p) : p[k] = q[k]

\* a text without its last character
ButLast(t) == [k \in 1..(Len(t) - 1) |-> t[k]]

\* the eligible rows of the page, in source order
EligibleRows == SelectSeq(doc.rows, Eligible)

\* extract has ended, by return or by exception, on a page whose first
\* <tbody> has at least one row
AfterExtract ==
  /\ doc.tbody
  /\ doc.rows # << >>
  /\ \/ pc = "transform" /\ calls = 0
     \/ failed = "extract"

\* C1: for every page whose first table body has a row, extract returns
\* exactly one Record per eligible row and none for any other row, in source
\* order: N eligible rows give N Records, the i-th from the i-th eligible row.
C1_OneRecordPerEligibleRow ==
  AfterExtract =>
    /\ failed = "none"
    /\ Len(df.data) = Len(EligibleRows)
    /\ \A i \in 1..Len(EligibleRows) : df.data[i] = data_dict(EligibleRows[i])

\* the third cell has no first content node, or its first content node
\* without its last character is no number
Unparseable(cell) ==
  \/ cell.contents = << >>
  \/ ~float(ButLast(cell.contents[1].text)).ok

\* C2: whatever the first content node of the third data cell of an eligible
\* row is (absent, numeric text, other text, a nested element), metric
\* extraction does not raise and does not drop the row; an absent or
\* unparseable node gives 0.0; the remaining rows are still extracted.
C2_MetricNeverRaises ==
  AfterExtract =>
    /\ exc # "TypeError"
    /\ Len(df.data) = Len(EligibleRows)
    /\ \A i \in 1..Len(df.data) :
         Unparseable(EligibleRows[i][3]) => df.data[i].MC_USD_Billion = Zero

\* C3: transform fails with a missing-rate error whenever the rate table
\* lacks one of GBP, EUR, INR, for every RecordSet including the empty one,
\* and never returns a RecordSet lacking one of the three derived columns.
C3_MissingRateAlwaysFails ==
  /\ (rates \in RateTables /\ \E k \in 1..Len(Currencies) : Currencies[k] \notin DOMAIN rates)
       => (failed = "transform" /\ exc = "KeyError")
  /\ (rates \in RateTables /\ failed = "none")
       => \A k \in 1..Len(Currencies) :
            \E j \in 1..Len(df.columns) : df.columns[j] = ColumnOf(Currencies[k])

\* C4: after transform every Record's derived column of each currency c is
\* round(metricUsdBillion * rates[c], 2) of that Record's own USD metric, and
\* a second call with the same RecordSet and rate table leaves the derived
\* columns as the first call made them.
C4_DerivedColumns ==
  /\ calls >= 1 =>
       \A i \in 1..Len(df.data) : \A k \in 1..Len(Currencies) :
         df.data[i][ColumnOf(Currencies[k])] =
           Round2(df.data[i].MC_USD_Billion, rates[Currencies[k]])
  /\ calls >= 2 => df = firstOut[1]

\* two calls returned on two Records of different market caps
C4_Witness ==
  /\ calls = 2
  /\ Len(df.data) = 2
  /\ df.data[1].MC_USD_Billion # df.data[2].MC_USD_Billion
  /\ df.data[1].MC_GBP_Billion # df.data[1].MC_EUR_Billion

\* the name the claim gives a second data cell: the title of the second
\* anchor if there is one and it has a title, else the cell's visible text
\* with the whitespace at its two ends removed
ClaimedName(cell) ==
  IF Len(cell.anchors) >= 2 /\ cell.anchors[2].hasTitle
  THEN cell.anchors[2].title
  ELSE Strip(Join(cell.strings))

\* C5: the name of every eligible row is the title of the second anchor of
\* its second data cell when that anchor exists and has a title, otherwise
\* the whitespace-trimmed visible text of that cell, and the row is emitted.
C5_NameRule ==
  AfterExtract =>
    /\ Len(df.data) = Len(EligibleRows)
    /\ \A i \in 1..Len(df.data) : df.data[i].Name = ClaimedName(EligibleRows[i][2])

\* C6: every Record extract puts in the output has a name and a market cap,
\* and the market cap is a non-negative number whatever the third cell holds.
C6_NonNegativeMetric ==
  \A i \in 1..Len(df.data) :
    /\ {"Name", "MC_USD_Billion"} \subseteq DOMAIN df.data[i]
    /\ ~df.data[i].MC_USD_Billion.nan
    /\ df.data[i].MC_USD_Billion.v >= 0

\* C7: a run that ends with no table body, no rows in the first table body,
\* or a missing rate has written neither the flat file nor the table.
C7_NoSinkWriteOnFatal ==
  exc \in {"NoTbody", "NoRows", "KeyError"} => csvFile = << >> /\ dbTable = << >>

\* a run ended by a missing rate, with Records extracted
C7_Witness == exc = "KeyError" /\ failed = "transform" /\ Len(df.data) >= 1

StageOrder ==
  <<"extract", "transform", "load_to_csv", "load_to_db",
    "query_1", "query_2", "query_3", "close">>

\* C8: the stages run in the order extract, transform, flat file, table,
\* the three queries, close; each at most once, each only after the one
\* before it returned; after a failure no later stage runs.
C8_FixedOrder ==
  /\ IsPrefix(started, StageOrder)
  /\ failed \notin {"none", "connect"} => started # << >> /\ Last(started) = failed
  /\ failed = "connect" => Last(started) = "load_to_csv"
  /\ pc = "done" => started = StageOrder /\ failed = "none"

\* the second query raised: six stages were entered and no more
C8_Witness == failed = "query_2" /\ pc = "aborted" /\ Len(started) = 6

\* C9: the store handle is acquired at most once, used only for one
\* table-replace followed by the three queries, and released before the run
\* ends in every run that acquired it, whether or not those succeed.
C9_HandleReleased ==
  /\ connects <= 1
  /\ IsPrefix(connUses, <<"replace", query_1, query_2, query_3>>)
  /\ (pc \in {"done", "aborted"} /\ connects >= 1) => conn = "closed"

\* a figure: an optional sign, then digits with at most one point and at
\* least one digit, and nothing else
IsFigure(s) ==
  LET body == IF s # << >> /\ Head(s) = "-" THEN Tail(s) ELSE s
  IN /\ \A k \in 1..Len(body) : body[k] \in Digits \cup {"."}
     /\ CountPoints(body) <= 1
     /\ \E k \in 1..Len(body) : body[k] \in Digits
IsNan(s) == s = <<"n", "a", "n">> \/ s = <<"-", "n", "a", "n">>
Num(s) == [nan |-> float(s).nan, v |-> float(s).v]

\* the number a text is when it is a literal as it stands, else 0.0
StrictParse(s) == IF IsFigure(s) \/ IsNan(s) THEN Num(s) ELSE Zero

\* a text as a figure followed by marker characters (characters no figure
\* is written with)
NumericChars == Digits \cup {".", "-"}
FirstMarker(t) ==
  IF \E k \in 1..Len(t) : t[k] \notin NumericChars
  THEN CHOOSE k \in 1..Len(t) :
         t[k] \notin NumericChars /\ \A j \in 1..(k - 1) : t[j] \in NumericChars
  ELSE Len(t) + 1
FigureOf(t) == SubSeq(t, 1, FirstMarker(t) - 1)
MarkersOf(t) == SubSeq(t, FirstMarker(t), Len(t))
FigureThenMarkers(t) ==
  /\ IsFigure(FigureOf(t))
  /\ \A k \in 1..Len(MarkersOf(t)) : MarkersOf(t)[k] \notin NumericChars

\* extract has returned on a page whose only row has a text as the only
\* child of its third cell
AfterText ==
  /\ pc = "transform"
  /\ Len(doc.rows) = 1
  /\ Len(doc.rows[1]) = 3
  /\ Len(doc.rows[1][3].contents) = 1
  /\ ~doc.rows[1][3].contents[1].tag
  /\ Len(df.data) = 1
CellText == doc.rows[1][3].contents[1].text
CellValue == df.data[1].MC_USD_Billion

\* C10 as stated: the last character is removed and what remains is parsed
\* with no other stripping: a figure and one marker give the figure, a
\* figure and two or more markers give 0.0, a figure alone gives the number
\* its characters but the last form.
C10_NoOtherStripping ==
  AfterText =>
    /\ CellValue = StrictParse(ButLast(CellText))
    /\ FigureThenMarkers(CellText) =>
         /\ Len(MarkersOf(CellText)) = 1 => CellValue = Num(FigureOf(CellText))
         /\ Len(MarkersOf(CellText)) >= 2 => CellValue = Zero
         /\ Len(MarkersOf(CellText)) = 0 =>
              CellValue = StrictParse(ButLast(FigureOf(CellText)))

\* C10 amended: the last character is removed and what remains is parsed
\* as float parses it, whitespace at its two ends ignored and nothing else
\* stripped: a figure and one marker give the figure; a figure and two or
\* more markers give 0.0, unless all markers but the last are whitespace,
\* which gives the figure; a figure alone gives the number its characters
\* but the last form (0.0 if they form none).
C10_DropLastThenFloat ==
  AfterText =>
    /\ CellValue = StrictParse(Strip(ButLast(CellText)))
    /\ FigureThenMarkers(CellText) =>
         /\ Len(MarkersOf(CellText)) = 1 => CellValue = Num(FigureOf(CellText))
         /\ Len(MarkersOf(CellText)) >= 2 =>
              CellValue = IF \A k \in 1..(Len(MarkersOf(CellText)) - 1) :
                                MarkersOf(CellText)[k] \in Spaces
                          THEN Num(FigureOf(CellText))
                          ELSE Zero
         /\ Len(MarkersOf(CellText)) = 0 =>
              CellValue = StrictParse(ButLast(FigureOf(CellText)))

\* a figure followed by a blank and one more marker was extracted
C10_Witness ==
  /\ AfterText
  /\ FigureThenMarkers(CellText)
  /\ Len(MarkersOf(CellText)) >= 2
  /\ CellValue # Zero

====
